---- MODULE Spec2Model ----
(***************************************************************************)
(* A model of helper.py: the RepoHandler class that clones a demo          *)
(* repository, parses its README.md manifest, installs its requirements    *)
(* (optionally with a prebuilt xformers wheel) and launches its web demo.  *)
(*                                                                         *)
(* Text is modelled as a sequence of tokens.  A token is a character or an *)
(* atomic word ("Check", "T4", ".git", "title", ...); substring tests on   *)
(* such words are token membership.  External programs (git, pip,          *)
(* nvidia-smi, the file system) are the environment: every command the     *)
(* code issues is appended to cmds, every message it prints to out, and    *)
(* the outcomes the environment can produce are nondeterministic choices.  *)
(***************************************************************************)
EXTENDS Integers, Sequences, FiniteSets, TLC

VARIABLES
    handler,    \* the RepoHandler instance: attribute name -> value
    fs,         \* working directory: name of an existing entry -> its state
    readmeFile, \* the manifest file a parse reads: [exists, content]
    env,        \* the machine: nvidia-smi text, cuda, torch, query outcome
    call,       \* the last method call and its arguments
    pc,         \* position of the caller: "ready", "poll", "done", "raised"
    exc,        \* the exception the last call raised, "None" if none
    ret,        \* the value the last call returned
    gpu,        \* install_xformers' local variable gpu
    cmds,       \* the external commands issued so far, in order
    out,        \* the messages printed so far, in order
    ncalls      \* number of method calls made so far

vars == <<handler, fs, readmeFile, env, call, pc, exc, ret, gpu, cmds, out, ncalls>>

----------------------------------------------------------------------------
(* Bounds of the model *)

MaxFileLen == 6
MaxUrlLen == 4
MaxSmiLen == 3
MaxPolls == 3
MaxCalls == 2

----------------------------------------------------------------------------
(* Python str operations on token sequences *)

Whitespace == {" ", "\n"}

\* s[i:] with a 1-based first index
Tail_(s, i) == SubSeq(s, i, Len(s))

\* str.find(c): 0-based index of the first c, -1 when absent
Find(s, c) ==
    IF \E i \in 1..Len(s) : s[i] = c
    THEN (CHOOSE i \in 1..Len(s) : s[i] = c /\ \A j \in 1..(i-1) : s[j] # c) - 1
    ELSE -1

\* `w in s` for an atomic word w
Contains(s, w) == \E i \in 1..Len(s) : s[i] = w

\* str.split(sep): the parts between the occurrences of sep, all of them
RECURSIVE Split(_, _)
Split(s, sep) ==
    IF Find(s, sep) = -1 THEN <<s>>
    ELSE <<SubSeq(s, 1, Find(s, sep))>> \o Split(Tail_(s, Find(s, sep) + 2), sep)

RECURSIVE LStrip(_)
LStrip(s) ==
    IF s # <<>> /\ Head(s) \in Whitespace THEN LStrip(Tail(s)) ELSE s

RECURSIVE RStrip(_)
RStrip(s) ==
    IF s # <<>> /\ s[Len(s)] \in Whitespace THEN RStrip(SubSeq(s, 1, Len(s) - 1)) ELSE s

\* str.strip()
Strip(s) == RStrip(LStrip(s))

\* str.replace(w, ''): every occurrence of w removed
Remove(s, w) == SelectSeq(s, LAMBDA t : t # w)

\* iteration over a text file: the lines, each keeping its line ending
RECURSIVE FileLines(_)
FileLines(text) ==
    IF text = <<>> THEN <<>>
    ELSE IF Find(text, "\n") = -1 THEN <<text>>
    ELSE <<SubSeq(text, 1, Find(text, "\n") + 1)>> \o FileLines(Tail_(text, Find(text, "\n") + 2))

----------------------------------------------------------------------------
(* Python values and exceptions *)

EmptyDict == [k \in {} |-> <<>>]

\* d[k] = v on a dict
DictSet(d, k, v) == [x \in DOMAIN d \cup {k} |-> IF x = k THEN v ELSE d[x]]

NoneValue == [kind |-> "None"]
DictValue(d) == [kind |-> "dict", d |-> d]
\* the string a dict formats to: text, no longer a mapping
StrValue(d) == [kind |-> "str", repr |-> d]

\* obj[key]: a dict looks the key up, a str or None cannot be indexed by a str
Subscript(obj, key) ==
    IF obj.kind = "dict"
    THEN IF key \in DOMAIN obj.d
         THEN [exc |-> "None", value |-> obj.d[key]]
         ELSE [exc |-> "KeyError", value |-> <<>>]
    ELSE [exc |-> "TypeError", value |-> <<>>]

----------------------------------------------------------------------------
(* RepoHandler.retrieve_readme *)

\* a loop that forgets to skip the "Check" lines
Ignored_NoCheckTest(line) == ~(Find(line, ":") > 0)

\* the condition under which the loop skips a line
Ignored(line) == ~(Find(line, ":") > 0) \/ Contains(line, "Check")

\* one iteration of the loop on a line: the dict after it, or the ValueError
\* of unpacking a split of other than two parts into (k, v)
ReadmeLine(acc, line) ==
    IF acc.exc # "None" THEN acc
    ELSE IF Ignored(line) THEN acc
    ELSE IF Len(Split(line, ":")) # 2 THEN [acc EXCEPT !.exc = "ValueError"]
    ELSE [acc EXCEPT !.readme =
            DictSet(acc.readme, Split(line, ":")[1], Remove(Strip(Split(line, ":")[2]), "\n"))]

RECURSIVE ReadmeLoop(_, _)
ReadmeLoop(acc, lines) ==
    IF lines = <<>> THEN acc
    ELSE ReadmeLoop(ReadmeLine(acc, Head(lines)), Tail(lines))

Msg(text, arg) == [text |-> text, arg |-> arg]

NoReadmeMsg == Msg("No 'readme.md' file", <<>>)

\* the whole method on a file: what it raises, returns and prints
RetrieveReadmeResult(file) ==
    IF file.exists
    THEN [exc |-> ReadmeLoop([exc |-> "None", readme |-> EmptyDict], FileLines(file.content)).exc,
          readme |-> ReadmeLoop([exc |-> "None", readme |-> EmptyDict], FileLines(file.content)).readme,
          out |-> <<>>]
    ELSE [exc |-> "None", readme |-> EmptyDict, out |-> <<NoReadmeMsg>>]

----------------------------------------------------------------------------
(* RepoHandler.__init__ and the state shared by every specification *)

\* the instance __init__ leaves: exactly the attributes repo_url and repo_name
NewHandler(url) == [repo_url |-> url, repo_name |-> Split(url, "/")[Len(Split(url, "/"))]]

\* self.<name>: the attribute, or AttributeError when it was never assigned
GetAttr(obj, name) ==
    IF name \in DOMAIN obj
    THEN [exc |-> "None", value |-> obj[name]]
    ELSE [exc |-> "AttributeError", value |-> <<>>]

Seqs(S, n) == UNION {[1..k -> S] : k \in 0..n}

NoCall == [op |-> "none", overwrite |-> FALSE, requirements_file |-> [kind |-> "None"],
           install_xformers |-> FALSE, aws |-> FALSE]

NoFile == [exists |-> FALSE, content |-> <<>>]

NoEnv == [smi |-> <<>>, torch |-> FALSE, cuda |-> FALSE, query_ok |-> FALSE]

Unbound == "<unbound>"

\* pc after a call that ran to its end
After(e) == IF e = "None" THEN "done" ELSE "raised"

----------------------------------------------------------------------------
(* Specification SpecReadme: retrieve_readme on every small manifest file *)

ReadmeAlphabet == {"a", ":", " ", "\n", "Check"}

ReadmeFiles ==
    {[exists |-> TRUE, content |-> c] : c \in Seqs(ReadmeAlphabet, MaxFileLen)} \cup {NoFile}

InitReadme ==
    /\ handler = NewHandler(<<"r">>)
    /\ fs = [n \in {<<"r">>} |-> "intact"]
    /\ readmeFile \in ReadmeFiles
    /\ env = NoEnv
    /\ call = NoCall
    /\ pc = "ready"
    /\ exc = "None"
    /\ ret = NoneValue
    /\ gpu = Unbound
    /\ cmds = <<>>
    /\ out = <<>>
    /\ ncalls = 0

RetrieveReadme ==
    /\ pc = "ready"
    /\ call' = [NoCall EXCEPT !.op = "retrieve_readme"]
    /\ exc' = RetrieveReadmeResult(readmeFile).exc
    /\ pc' = After(RetrieveReadmeResult(readmeFile).exc)
    /\ ret' = IF RetrieveReadmeResult(readmeFile).exc = "None"
              THEN DictValue(RetrieveReadmeResult(readmeFile).readme)
              ELSE NoneValue
    /\ out' = out \o RetrieveReadmeResult(readmeFile).out
    /\ ncalls' = ncalls + 1
    /\ UNCHANGED <<handler, fs, readmeFile, env, gpu, cmds>>

NextReadme == RetrieveReadme

SpecReadme == InitReadme /\ [][NextReadme]_vars

----------------------------------------------------------------------------
(* Claims about retrieve_readme *)

Count(s, c) == Cardinality({i \in 1..Len(s) : s[i] = c})

\* the lines of the manifest that was parsed
ParsedLines == FileLines(readmeFile.content)

\* a line the manifest format says is an entry: a colon past index 0, no "Check"
IsEntryLine(line) ==
    /\ \E i \in 2..Len(line) : line[i] = ":" /\ \A j \in 1..(i-1) : line[j] # ":"
    /\ \A i \in 1..Len(line) : line[i] # "Check"

FirstColon(line) == CHOOSE i \in 1..Len(line) : line[i] = ":" /\ \A j \in 1..(i-1) : line[j] # ":"

\* the text before the first colon
EntryKey(line) == SubSeq(line, 1, FirstColon(line) - 1)

\* the text after the first colon without its surrounding whitespace
RECURSIVE Trimmed(_)
Trimmed(s) ==
    IF s = <<>> THEN s
    ELSE IF s[1] \in {" ", "\n"} THEN Trimmed(SubSeq(s, 2, Len(s)))
    ELSE IF s[Len(s)] \in {" ", "\n"} THEN Trimmed(SubSeq(s, 1, Len(s) - 1))
    ELSE s

EntryValue(line) == Trimmed(SubSeq(line, FirstColon(line) + 1, Len(line)))

EntryLines == {i \in 1..Len(ParsedLines) : IsEntryLine(ParsedLines[i])}

\* the entry line that decides a key: the last one with that key
Deciding(i) == \A j \in EntryLines : j > i => EntryKey(ParsedLines[j]) # EntryKey(ParsedLines[i])

ReadmeParsed == call.op = "retrieve_readme" /\ pc \in {"done", "raised"} /\ readmeFile.exists

\* C2: every line with a colon past index 0 and without "Check", lines with
\* two or more colons included, becomes an entry keyed by the text before the
\* first colon with the trimmed text after the first colon as its value, and
\* retrieve_readme does not raise.
C2_EveryEntryLineIsAdded ==
    ReadmeParsed =>
        \A i \in EntryLines :
            /\ exc = "None"
            /\ ret.kind = "dict"
            /\ EntryKey(ParsedLines[i]) \in DOMAIN ret.d
            /\ Deciding(i) => ret.d[EntryKey(ParsedLines[i])] = EntryValue(ParsedLines[i])

\* C7: a line without a colon, with its first colon at index 0, or containing
\* "Check" adds no entry and is never what makes retrieve_readme raise; the
\* keys returned are exactly the keys of the other lines, a later line with
\* the same key overwriting an earlier one.
C7_IgnoredLinesAddNothing ==
    ReadmeParsed =>
        /\ pc = "raised" => \E i \in EntryLines : Count(ParsedLines[i], ":") >= 2
        /\ pc = "done" =>
            /\ ret.kind = "dict"
            /\ DOMAIN ret.d = {EntryKey(ParsedLines[i]) : i \in EntryLines}
            /\ \A i \in EntryLines :
                 Deciding(i) => ret.d[EntryKey(ParsedLines[i])] = EntryValue(ParsedLines[i])

\* a manifest with a "Check" line of several colons, a line without a colon
\* and a line starting with a colon, parsed to the end
C7_Witness ==
    /\ ReadmeParsed
    /\ pc = "done"
    /\ \E i \in 1..Len(ParsedLines) :
         Contains(ParsedLines[i], "Check") /\ Count(ParsedLines[i], ":") >= 2
    /\ EntryLines # {}

----------------------------------------------------------------------------
(* The environment of clone_repo: the working directory, shutil.rmtree, git *)

Cmd(what, arg) == [what |-> what, arg |-> arg]

RECURSIVE StripSlashes(_)
StripSlashes(s) ==
    IF s # <<>> /\ s[Len(s)] = "/" THEN StripSlashes(SubSeq(s, 1, Len(s) - 1)) ELSE s

\* the url without a trailing "/.git"
StripDotGitDir(s) ==
    IF Len(s) > 2 /\ s[Len(s) - 1] = "/" /\ s[Len(s)] = ".git"
    THEN StripSlashes(SubSeq(s, 1, Len(s) - 2))
    ELSE s

StripDotGitSuffix(s) ==
    IF s # <<>> /\ s[Len(s)] = ".git" THEN SubSeq(s, 1, Len(s) - 1) ELSE s

LastPart(s) == Split(s, "/")[Len(Split(s, "/"))]

\* the directory `git clone <url>` creates when given no directory: the last
\* path component of the url, trailing slashes and a ".git" suffix dropped;
\* empty when git can guess no name and refuses to clone
GitDirName(url) == StripDotGitSuffix(LastPart(StripDotGitDir(StripSlashes(url))))

\* os.path.exists(name): the empty path never exists
Exists(files, name) == name # <<>> /\ name \in DOMAIN files

RmOutcomes == {"removed", "failed", "failed_partway"}

\* shutil.rmtree(name): removes the tree, or raises OSError (always when there
\* is no such directory) and leaves it, possibly with part of it gone
RmTree(files, name, outcome) ==
    IF ~Exists(files, name) THEN [fs |-> files, exc |-> "OSError"]
    ELSE IF outcome = "removed"
    THEN [fs |-> [n \in DOMAIN files \ {name} |-> files[n]], exc |-> "None"]
    ELSE IF outcome = "failed_partway"
    THEN [fs |-> [files EXCEPT ![name] = "partial"], exc |-> "OSError"]
    ELSE [fs |-> files, exc |-> "OSError"]

GitOutcomes == {"ok", "fail"}

\* git clone <url>: creates GitDirName(url) unless it can guess no name, the
\* directory is already there, or the transfer fails; its exit code is ignored
GitClone(files, url, outcome) ==
    IF outcome = "ok" /\ GitDirName(url) # <<>> /\ ~Exists(files, GitDirName(url))
    THEN [n \in DOMAIN files \cup {GitDirName(url)} |->
            IF n = GitDirName(url) THEN "intact" ELSE files[n]]
    ELSE files

----------------------------------------------------------------------------
(* RepoHandler.clone_repo *)

RmErrorMsg(name) == Msg("Error: %s - %s.", name)
AlreadyClonedMsg(name) == Msg("Repository {repo_name} has already been cloned.", name)

\* a removal whose OSError is left to propagate and is not printed
CloneRemove_Unreported(h, files, overwrite, outcome) ==
    IF overwrite
    THEN [fs |-> RmTree(files, h.repo_name, outcome).fs,
          cmds |-> <<Cmd("rmtree", h.repo_name)>>,
          out |-> <<>>,
          exc |-> RmTree(files, h.repo_name, outcome).exc]
    ELSE [fs |-> files, cmds |-> <<>>, out |-> <<>>, exc |-> "None"]

\* the first statement: with overwrite, the removal attempt and its except clause
CloneRemove(h, files, overwrite, outcome) ==
    IF overwrite
    THEN [fs |-> RmTree(files, h.repo_name, outcome).fs,
          cmds |-> <<Cmd("rmtree", h.repo_name)>>,
          out |-> IF RmTree(files, h.repo_name, outcome).exc = "OSError"
                  THEN <<RmErrorMsg(h.repo_name)>> ELSE <<>>,
          exc |-> "None"]
    ELSE [fs |-> files, cmds |-> <<>>, out |-> <<>>, exc |-> "None"]

\* a clone that does not look whether the directory is there
CloneCheck_NoExistsTest(h, files, outcome) ==
    [fs |-> GitClone(files, h.repo_url, outcome),
     cmds |-> <<Cmd("git clone", h.repo_url)>>,
     out |-> <<>>]

\* the second statement: the existence test, then the message or the clone
CloneCheck(h, files, outcome) ==
    IF Exists(files, h.repo_name)
    THEN [fs |-> files, cmds |-> <<>>, out |-> <<AlreadyClonedMsg(h.repo_name)>>]
    ELSE [fs |-> GitClone(files, h.repo_url, outcome),
          cmds |-> <<Cmd("git clone", h.repo_url)>>,
          out |-> <<>>]

----------------------------------------------------------------------------
(* Specification SpecClone: clone_repo calls on every small repository url *)

UrlAlphabet == {"r", "s", "/", ".git"}

Urls == Seqs(UrlAlphabet, MaxUrlLen) \ {<<>>}

\* the directories that may be there before the first call
InitialDirs(url) == SUBSET ({NewHandler(url).repo_name, GitDirName(url)} \ {<<>>})

InitClone ==
    /\ \E url \in Urls :
        /\ handler = NewHandler(url)
        /\ \E present \in InitialDirs(url) : fs = [n \in present |-> "intact"]
    /\ readmeFile = NoFile
    /\ env = NoEnv
    /\ call = NoCall
    /\ pc = "ready"
    /\ exc = "None"
    /\ ret = NoneValue
    /\ gpu = Unbound
    /\ cmds = <<>>
    /\ out = <<>>
    /\ ncalls = 0

\* clone_repo(overwrite) up to the existence test
CloneRepoRemove ==
    /\ pc \in {"ready", "done"}
    /\ ncalls < MaxCalls
    /\ \E overwrite \in BOOLEAN, outcome \in RmOutcomes :
        /\ call' = [NoCall EXCEPT !.op = "clone_repo", !.overwrite = overwrite]
        /\ fs' = CloneRemove(handler, fs, overwrite, outcome).fs
        /\ cmds' = cmds \o CloneRemove(handler, fs, overwrite, outcome).cmds
        /\ out' = out \o CloneRemove(handler, fs, overwrite, outcome).out
        /\ exc' = CloneRemove(handler, fs, overwrite, outcome).exc
        /\ pc' = IF CloneRemove(handler, fs, overwrite, outcome).exc = "None"
                 THEN "clone_check" ELSE "raised"
    /\ ncalls' = ncalls + 1
    /\ ret' = NoneValue
    /\ UNCHANGED <<handler, readmeFile, env, gpu>>

\* clone_repo from the existence test to its return
CloneRepoCheck ==
    /\ pc = "clone_check"
    /\ \E outcome \in GitOutcomes :
        /\ fs' = CloneCheck(handler, fs, outcome).fs
        /\ cmds' = cmds \o CloneCheck(handler, fs, outcome).cmds
        /\ out' = out \o CloneCheck(handler, fs, outcome).out
    /\ pc' = "done"
    /\ UNCHANGED <<handler, readmeFile, env, call, exc, ret, gpu, ncalls>>

NextClone == CloneRepoRemove \/ CloneRepoCheck

SpecClone == InitClone /\ [][NextClone]_vars

----------------------------------------------------------------------------
(* Claims about clone_repo *)

RepoDirExists == handler.repo_name # <<>> /\ handler.repo_name \in DOMAIN fs

\* C5: when the directory repo_name exists and clone_repo is called with
\* overwrite=False, no git clone is issued, the file system and the handler
\* stay as they are, and the "already been cloned" message is printed.
C5_ExistingRepoIsLeftAlone ==
    [][ /\ (call'.op = "clone_repo" /\ ~call'.overwrite /\ ncalls' = ncalls + 1 /\ RepoDirExists)
            => /\ pc' = "clone_check"
               /\ exc' = "None"
               /\ fs' = fs /\ cmds' = cmds /\ out' = out /\ handler' = handler
        /\ (pc = "clone_check" /\ ~call.overwrite /\ RepoDirExists)
            => /\ pc' = "done"
               /\ exc' = "None"
               /\ fs' = fs /\ cmds' = cmds /\ handler' = handler
               /\ out' = Append(out, Msg("Repository {repo_name} has already been cloned.",
                                         handler.repo_name))
      ]_vars

\* a clone_repo(overwrite=False) that returned after finding the directory there
C5_Witness ==
    /\ call.op = "clone_repo" /\ ~call.overwrite /\ pc = "done"
    /\ RepoDirExists
    /\ out # <<>>
    /\ out[Len(out)].text = "Repository {repo_name} has already been cloned."
    /\ \A i \in 1..Len(cmds) : cmds[i].what # "git clone"

\* C6: with overwrite=True the removal of the directory is attempted first; a
\* failed removal (the directory missing included) is printed and not
\* raised; and git clone is issued exactly when the directory does not exist
\* after the removal attempt, a directory that could not be removed being
\* reported as already cloned.
C6_OverwriteRemovesThenChecks ==
    [][ /\ (call'.op = "clone_repo" /\ call'.overwrite /\ ncalls' = ncalls + 1)
            => /\ pc' = "clone_check"
               /\ exc' = "None"
               /\ cmds' = Append(cmds, [what |-> "rmtree", arg |-> handler.repo_name])
               /\ (RepoDirExists /\ handler.repo_name \notin DOMAIN fs')
                    => out' = out
               /\ (~RepoDirExists \/ handler.repo_name \in DOMAIN fs')
                    => out' = Append(out, Msg("Error: %s - %s.", handler.repo_name))
               /\ ~RepoDirExists => fs' = fs
        /\ (pc = "clone_check" /\ call.overwrite)
            => /\ pc' = "done"
               /\ exc' = "None"
               /\ RepoDirExists
                    => /\ cmds' = cmds /\ fs' = fs
                       /\ out' = Append(out, Msg("Repository {repo_name} has already been cloned.",
                                                 handler.repo_name))
               /\ ~RepoDirExists
                    => /\ cmds' = Append(cmds, [what |-> "git clone", arg |-> handler.repo_url])
                       /\ out' = out
      ]_vars

\* a clone_repo(overwrite=True) whose removal failed partway: the failure was
\* printed, the directory is still there and was reported as already cloned
C6_Witness ==
    /\ call.op = "clone_repo" /\ call.overwrite /\ pc = "done" /\ exc = "None"
    /\ RepoDirExists /\ fs[handler.repo_name] = "partial"
    /\ Len(out) >= 2
    /\ out[Len(out) - 1].text = "Error: %s - %s."
    /\ out[Len(out)].text = "Repository {repo_name} has already been cloned."
    /\ cmds[Len(cmds)].what = "rmtree"

\* C10: after a clone_repo call in which git clone created the repository,
\* the directory clone_repo tests for existence is there, whatever the url
\* (so that a later call does not clone again).
C10_CloneCreatesTheTestedDirectory ==
    [][ (pc = "clone_check" /\ fs' # fs) => handler.repo_name \in DOMAIN fs' ]_vars

----------------------------------------------------------------------------
(* RepoHandler.install_requirements *)

StrArg(s) == [kind |-> "str", s |-> s]

\* `not v` for an argument that is None or a str
Falsy(v) == v.kind = "None" \/ (v.kind = "str" /\ v.s = <<>>)

\* the method up to its pip command: the default path is built from
\* self.repo_name and self.requirements_file when no path is given
InstallRequirementsResult(h, reqfile) ==
    IF Falsy(reqfile)
    THEN IF GetAttr(h, "requirements_file").exc # "None"
         THEN [exc |-> GetAttr(h, "requirements_file").exc, cmds |-> <<>>]
         ELSE [exc |-> "None",
               cmds |-> <<Cmd("pip install -r",
                              h.repo_name \o <<"/">> \o GetAttr(h, "requirements_file").value)>>]
    ELSE [exc |-> "None", cmds |-> <<Cmd("pip install -r", reqfile.s)>>]

----------------------------------------------------------------------------
(* RepoHandler.install_xformers *)

GpuNames == {"T4", "P100", "V100", "A100"}

\* a detection that looks for A100 before V100
DetectGpu_A100First(s) ==
    IF Contains(s, "T4") THEN "T4"
    ELSE IF Contains(s, "P100") THEN "P100"
    ELSE IF Contains(s, "A100") THEN "A100"
    ELSE IF Contains(s, "V100") THEN "V100"
    ELSE Unbound

\* the if/elif chain on the nvidia-smi text; gpu stays unbound when none matches
DetectGpu(s) ==
    IF Contains(s, "T4") THEN "T4"
    ELSE IF Contains(s, "P100") THEN "P100"
    ELSE IF Contains(s, "V100") THEN "V100"
    ELSE IF Contains(s, "A100") THEN "A100"
    ELSE Unbound

\* a loop body whose test cannot fail
PollBreaks_Always(g) == TRUE

\* the loop body: reading gpu raises UnboundLocalError when it is unbound, the
\* bare except swallows it and the break is skipped; otherwise the comparison
\* is evaluated, its value dropped, and the loop is left
PollBreaks(g) == g # Unbound

UnsupportedMsg == Msg(" Seems that your GPU is not supported at the moment.", <<>>)

\* the second if/elif chain; precompiled_wheels stays unbound when none matches
PrecompiledWheel(g) ==
    IF g = "T4"
    THEN <<"https://github.com/TheLastBen/fast-stable-diffusion/raw/main/precompiled/T4/xformers-0.0.13.dev0-py3-none-any.whl">>
    ELSE IF g = "P100"
    THEN <<"https://github.com/TheLastBen/fast-stable-diffusion/raw/main/precompiled/P100/xformers-0.0.13.dev0-py3-none-any.whl">>
    ELSE IF g = "V100"
    THEN <<"https://github.com/TheLastBen/fast-stable-diffusion/raw/main/precompiled/V100/xformers-0.0.13.dev0-py3-none-any.whl">>
    ELSE IF g = "A100"
    THEN <<"https://github.com/TheLastBen/fast-stable-diffusion/raw/main/precompiled/A100/xformers-0.0.13.dev0-py3-none-any.whl">>
    ELSE <<Unbound>>

\* what follows the loop: the wheel is chosen and installed; reading gpu or
\* precompiled_wheels while unbound raises UnboundLocalError
AfterPoll(g) ==
    IF g = Unbound \/ PrecompiledWheel(g) = <<Unbound>>
    THEN [exc |-> "UnboundLocalError", cmds |-> <<>>]
    ELSE [exc |-> "None", cmds |-> <<Cmd("pip install -q", PrecompiledWheel(g))>>]

----------------------------------------------------------------------------
(* Specification SpecInstall: install_requirements and install_xformers on *)
(* every small nvidia-smi text                                             *)

SmiAlphabet == GpuNames \cup {"x"}

SmiTexts == Seqs(SmiAlphabet, MaxSmiLen)

ReqArgs == {NoneValue, StrArg(<<>>), StrArg(<<"reqs.txt">>)}

NumWarnings == Cardinality({i \in 1..Len(out) : out[i] = UnsupportedMsg})

InitInstall ==
    /\ handler = NewHandler(<<"r">>)
    /\ fs \in {[n \in d |-> "intact"] : d \in SUBSET {<<"r">>}}
    /\ readmeFile = NoFile
    /\ \E s \in SmiTexts : env = [NoEnv EXCEPT !.smi = s]
    /\ call = NoCall
    /\ pc = "ready"
    /\ exc = "None"
    /\ ret = NoneValue
    /\ gpu = Unbound
    /\ cmds = <<>>
    /\ out = <<>>
    /\ ncalls = 0

\* install_requirements(requirements_file, install_xformers) up to the call
\* of self.install_xformers()
InstallRequirements ==
    /\ pc = "ready"
    /\ \E reqfile \in ReqArgs, xf \in BOOLEAN :
        /\ call' = [NoCall EXCEPT !.op = "install_requirements",
                                  !.requirements_file = reqfile,
                                  !.install_xformers = xf]
        /\ exc' = InstallRequirementsResult(handler, reqfile).exc
        /\ cmds' = cmds \o InstallRequirementsResult(handler, reqfile).cmds
        /\ pc' = IF InstallRequirementsResult(handler, reqfile).exc # "None" THEN "raised"
                 ELSE IF xf THEN "xformers" ELSE "done"
    /\ ncalls' = ncalls + 1
    /\ UNCHANGED <<handler, fs, readmeFile, env, ret, gpu, out>>

\* install_xformers, called directly or by install_requirements, down to the
\* loop: triton is installed, nvidia-smi is read and gpu is set or left unbound
InstallXformersBegin ==
    /\ pc \in {"ready", "xformers"}
    /\ call' = IF pc = "ready" THEN [NoCall EXCEPT !.op = "install_xformers"] ELSE call
    /\ ncalls' = IF pc = "ready" THEN ncalls + 1 ELSE ncalls
    /\ cmds' = cmds \o <<Cmd("pip install -U --pre", <<"triton">>), Cmd("nvidia-smi", <<>>)>>
    /\ gpu' = DetectGpu(env.smi)
    /\ pc' = "poll"
    /\ UNCHANGED <<handler, fs, readmeFile, env, exc, ret, out>>

\* one iteration of the loop that does not break: the warning, then the sleep
PollWarn ==
    /\ pc = "poll"
    /\ ~PollBreaks(gpu)
    /\ NumWarnings < MaxPolls
    /\ out' = Append(out, UnsupportedMsg)
    /\ UNCHANGED <<handler, fs, readmeFile, env, call, pc, exc, ret, gpu, cmds, ncalls>>

\* the iteration that breaks, and the rest of the method
PollBreak ==
    /\ pc = "poll"
    /\ PollBreaks(gpu)
    /\ exc' = AfterPoll(gpu).exc
    /\ cmds' = cmds \o AfterPoll(gpu).cmds
    /\ pc' = After(AfterPoll(gpu).exc)
    /\ UNCHANGED <<handler, fs, readmeFile, env, call, ret, gpu, out, ncalls>>

NextInstall == InstallRequirements \/ InstallXformersBegin \/ PollWarn \/ PollBreak

SpecInstall == InitInstall /\ [][NextInstall]_vars

----------------------------------------------------------------------------
(* Claims about install_requirements and install_xformers *)

CmdCount(what) == Cardinality({i \in 1..Len(cmds) : cmds[i].what = what})

\* C3: called without a requirements_file (None or empty), install_requirements
\* issues `pip install -r <repo_name>/requirements.txt` exactly once and does
\* not raise before it.
C3_DefaultRequirementsPath ==
    (call.op = "install_requirements" /\ pc # "ready"
        /\ (call.requirements_file.kind = "None" \/ call.requirements_file.s = <<>>))
    => /\ exc = "None"
       /\ CmdCount("pip install -r") = 1
       /\ \E i \in 1..Len(cmds) :
            cmds[i] = [what |-> "pip install -r",
                       arg |-> handler.repo_name \o <<"/", "requirements.txt">>]

XformersRunning ==
    /\ call.op \in {"install_requirements", "install_xformers"}
    /\ CmdCount("pip install -U --pre") >= 1

Supported == \E i \in 1..Len(env.smi) : env.smi[i] \in {"T4", "P100", "V100", "A100"}

\* C4: when the nvidia-smi text names none of T4, P100, V100, A100,
\* install_xformers installs triton and then stays in its polling loop, every
\* iteration printing the "not supported" warning, and never installs a
\* wheel; when the text names one of them, the loop is left on its first
\* iteration, no warning is printed and exactly one wheel is installed.
C4_UnsupportedGpuPollsForever ==
    /\ [](XformersRunning /\ ~Supported
            => /\ pc = "poll"
               /\ exc = "None"
               /\ CmdCount("pip install -U --pre") = 1
               /\ CmdCount("pip install -q") = 0)
    /\ [](XformersRunning /\ Supported
            => /\ pc \in {"poll", "done"}
               /\ exc = "None"
               /\ NumWarnings = 0
               /\ CmdCount("pip install -q") = (IF pc = "done" THEN 1 ELSE 0))
    /\ [][ /\ (pc = "poll" /\ ~Supported)
                => pc' = "poll" /\ cmds' = cmds /\ out' = Append(out, UnsupportedMsg)
           /\ (pc = "poll" /\ Supported)
                => pc' = "done" /\ out' = out /\ Len(cmds') = Len(cmds) + 1
         ]_vars

\* the loop after MaxPolls iterations on an unsupported GPU
C4_Witness ==
    /\ XformersRunning /\ ~Supported /\ env.smi # <<>>
    /\ pc = "poll"
    /\ NumWarnings = MaxPolls
    /\ CmdCount("pip install -q") = 0

XformersDetected == XformersRunning /\ pc \in {"poll", "done", "raised"}

\* C9 as stated: whenever the text contains "V100", V100 is selected and the
\* V100 wheel is the one installed.
C9_V100TextSelectsV100 ==
    (XformersDetected /\ Contains(env.smi, "V100"))
    => /\ gpu = "V100"
       /\ pc = "done" =>
            cmds[Len(cmds)].arg = <<"https://github.com/TheLastBen/fast-stable-diffusion/raw/main/precompiled/V100/xformers-0.0.13.dev0-py3-none-any.whl">>

WheelUrl(name) ==
    CASE name = "T4" -> "https://github.com/TheLastBen/fast-stable-diffusion/raw/main/precompiled/T4/xformers-0.0.13.dev0-py3-none-any.whl"
      [] name = "P100" -> "https://github.com/TheLastBen/fast-stable-diffusion/raw/main/precompiled/P100/xformers-0.0.13.dev0-py3-none-any.whl"
      [] name = "V100" -> "https://github.com/TheLastBen/fast-stable-diffusion/raw/main/precompiled/V100/xformers-0.0.13.dev0-py3-none-any.whl"
      [] name = "A100" -> "https://github.com/TheLastBen/fast-stable-diffusion/raw/main/precompiled/A100/xformers-0.0.13.dev0-py3-none-any.whl"

\* C9 amended: a text that contains "V100" and neither "T4" nor "P100"
\* selects V100; the selected model is always the first of T4, P100, V100,
\* A100 that occurs in the text, and the wheel installed is that model's.
C9_FirstListedModelIsSelected ==
    XformersDetected
    => /\ (Contains(env.smi, "V100") /\ ~Contains(env.smi, "T4") /\ ~Contains(env.smi, "P100"))
            => gpu = "V100"
       /\ Supported
            => /\ gpu \in {"T4", "P100", "V100", "A100"}
               /\ Contains(env.smi, gpu)
               /\ \A n \in {"T4", "P100", "V100", "A100"} :
                    Contains(env.smi, n) =>
                        <<gpu, n>> \in {<<"T4", "T4">>, <<"T4", "P100">>, <<"T4", "V100">>,
                                        <<"T4", "A100">>, <<"P100", "P100">>, <<"P100", "V100">>,
                                        <<"P100", "A100">>, <<"V100", "V100">>,
                                        <<"V100", "A100">>, <<"A100", "A100">>}
               /\ pc = "done" =>
                    /\ CmdCount("pip install -q") = 1
                    /\ cmds[Len(cmds)] = [what |-> "pip install -q", arg |-> <<WheelUrl(gpu)>>]

\* a text naming V100 and A100 but neither T4 nor P100, the V100 wheel installed
C9_Witness ==
    /\ XformersDetected /\ pc = "done"
    /\ Contains(env.smi, "V100") /\ Contains(env.smi, "A100")
    /\ gpu = "V100"
    /\ cmds[Len(cmds)].what = "pip install -q"

----------------------------------------------------------------------------
(* RepoHandler.__str__, get_gpu_memory_map and run_web_demo *)

\* the names bound at module level in helper.py
ModuleGlobals ==
    {"os", "sys", "shutil", "subprocess", "gr", "path_exists", "Dict",
     "newline", "bold", "unbold", "RepoHandler"}

\* reading a name that is neither a local nor a parameter of the function
LoadGlobal(name) == IF name \in ModuleGlobals THEN "None" ELSE "NameError"

NotClonedMsg(name) == Msg("The repo '{repo_name}' has not been cloned yet.", name)
NoGpuMsg == Msg("Not using the GPU", <<>>)
DemoMsg(title) == Msg("Demo: {title}", title)
WaitMsg == Msg("Wait a few seconds, then click the link below to open your application:", <<>>)
ProxyUrlMsg == Msg("https://{domain}.studio.{region}.sagemaker.aws/studiolab/default/jupyter/proxy/6006/", <<>>)
StaticMsg == Msg("This notebook will not work with static apps hosted on \"Spaces\"", <<>>)

\* __str__: the manifest formatted into a str when the repository directory
\* exists, otherwise a message and None
StrResult(h, files, file) ==
    IF Exists(files, h.repo_name)
    THEN [exc |-> RetrieveReadmeResult(file).exc,
          value |-> IF RetrieveReadmeResult(file).exc = "None"
                    THEN StrValue(RetrieveReadmeResult(file).readme) ELSE NoneValue,
          out |-> RetrieveReadmeResult(file).out]
    ELSE [exc |-> "None", value |-> NoneValue, out |-> <<NotClonedMsg(h.repo_name)>>]

\* get_gpu_memory_map: subprocess.run(..., check=True) on nvidia-smi
GpuMemoryMapResult(e) ==
    [exc |-> IF e.query_ok THEN "None" ELSE "CalledProcessError",
     cmds |-> <<Cmd("nvidia-smi --query-gpu", <<>>)>>]

GradioCommand(name, app) ==
    Cmd("os.system",
        <<"export GRADIO_SERVER_PORT=6006 && cd ">> \o name \o <<" && python ">> \o app)

StreamlitCommand(name, app) ==
    Cmd("os.system",
        <<"cd ">> \o name \o <<" && streamlit run ">> \o app \o <<" --server.port 6006">>)

\* a statement of the method is skipped once an exception is on its way up
Raise(st, e) == [st EXCEPT !.exc = e]

\* import torch, then the GPU report
DemoGpu(st, e) ==
    IF ~e.torch THEN Raise(st, "ModuleNotFoundError")
    ELSE IF e.cuda
    THEN [st EXCEPT !.exc = GpuMemoryMapResult(e).exc,
                    !.cmds = st.cmds \o GpuMemoryMapResult(e).cmds]
    ELSE [st EXCEPT !.out = Append(st.out, NoGpuMsg)]

\* readme = self.__str__()
DemoReadme(st, h, files, file) ==
    IF st.exc # "None" THEN st
    ELSE [st EXCEPT !.exc = StrResult(h, files, file).exc,
                    !.out = st.out \o StrResult(h, files, file).out,
                    !.readme = StrResult(h, files, file).value]

\* the two prints: the title is looked up in readme
DemoTitle(st) ==
    IF st.exc # "None" THEN st
    ELSE IF Subscript(st.readme, <<"title">>).exc # "None"
    THEN Raise(st, Subscript(st.readme, <<"title">>).exc)
    ELSE [st EXCEPT !.out = st.out \o <<DemoMsg(Subscript(st.readme, <<"title">>).value), WaitMsg>>]

\* if all([domain, region]): both names are read as globals
DemoProxyUrl(st) ==
    IF st.exc # "None" THEN st
    ELSE IF LoadGlobal("domain") # "None" THEN Raise(st, LoadGlobal("domain"))
    ELSE IF LoadGlobal("region") # "None" THEN Raise(st, LoadGlobal("region"))
    ELSE [st EXCEPT !.out = Append(st.out, ProxyUrlMsg)]

\* the dispatch on readme["sdk"] and readme["title"], and the start command
DemoLaunch(st, h) ==
    IF st.exc # "None" THEN st
    ELSE IF Subscript(st.readme, <<"sdk">>).exc # "None"
    THEN Raise(st, Subscript(st.readme, <<"sdk">>).exc)
    ELSE IF Subscript(st.readme, <<"sdk">>).value = <<"gradio">>
    THEN IF Subscript(st.readme, <<"app_file">>).exc # "None"
         THEN Raise(st, Subscript(st.readme, <<"app_file">>).exc)
         ELSE [st EXCEPT !.cmds = st.cmds \o
                    <<Cmd("gr.close_all", <<>>),
                      GradioCommand(h.repo_name, Subscript(st.readme, <<"app_file">>).value)>>]
    ELSE IF Subscript(st.readme, <<"title">>).exc # "None"
    THEN Raise(st, Subscript(st.readme, <<"title">>).exc)
    ELSE IF Subscript(st.readme, <<"title">>).value = <<"streamlit">>
    THEN IF Subscript(st.readme, <<"app_file">>).exc # "None"
         THEN Raise(st, Subscript(st.readme, <<"app_file">>).exc)
         ELSE [st EXCEPT !.cmds = Append(st.cmds,
                    StreamlitCommand(h.repo_name, Subscript(st.readme, <<"app_file">>).value))]
    ELSE [st EXCEPT !.out = Append(st.out, StaticMsg)]

\* the whole method: what it raises, the commands it issues, what it prints
RunWebDemoResult(h, files, file, e) ==
    DemoLaunch(
        DemoProxyUrl(
            DemoTitle(
                DemoReadme(
                    DemoGpu([exc |-> "None", cmds |-> <<>>, out |-> <<>>, readme |-> NoneValue], e),
                    h, files, file))),
        h)

----------------------------------------------------------------------------
(* Specification SpecDemo: run_web_demo on a set of manifests and machines *)

TitleLines ==
    {<<>>, <<"title", ":", " ", "Demo", "\n">>, <<"title", ":", " ", "streamlit", "\n">>}

SdkLines ==
    {<<>>, <<"sdk", ":", " ", "gradio", "\n">>, <<"sdk", ":", " ", "streamlit", "\n">>,
     <<"sdk", ":", " ", "static", "\n">>}

AppLines ==
    {<<>>, <<"app_file", ":", " ", "app.py", "\n">>, <<"app_file", ":", " ", "main.py", "\n">>}

OtherLines ==
    {<<>>, <<"---", "\n">>, <<"Check", " ", "https", ":", "//x", "\n">>,
     <<"url", ":", " ", "https", ":", "//x", "\n">>}

Manifests ==
    {[exists |-> TRUE, content |-> t \o s \o a \o o] :
        t \in TitleLines, s \in SdkLines, a \in AppLines, o \in OtherLines} \cup {NoFile}

InitDemo ==
    /\ handler = NewHandler(<<"r">>)
    /\ fs \in {[n \in d |-> "intact"] : d \in SUBSET {<<"r">>}}
    /\ readmeFile \in Manifests
    /\ fs = <<>> => readmeFile = NoFile
    /\ \E t, c, q \in BOOLEAN : env = [NoEnv EXCEPT !.torch = t, !.cuda = c, !.query_ok = q]
    /\ call = NoCall
    /\ pc = "ready"
    /\ exc = "None"
    /\ ret = NoneValue
    /\ gpu = Unbound
    /\ cmds = <<>>
    /\ out = <<>>
    /\ ncalls = 0

\* run_web_demo(aws_domain, aws_region): the arguments are never read
RunWebDemo ==
    /\ pc = "ready"
    /\ \E aws \in BOOLEAN : call' = [NoCall EXCEPT !.op = "run_web_demo", !.aws = aws]
    /\ exc' = RunWebDemoResult(handler, fs, readmeFile, env).exc
    /\ cmds' = cmds \o RunWebDemoResult(handler, fs, readmeFile, env).cmds
    /\ out' = out \o RunWebDemoResult(handler, fs, readmeFile, env).out
    /\ pc' = After(RunWebDemoResult(handler, fs, readmeFile, env).exc)
    /\ ncalls' = ncalls + 1
    /\ UNCHANGED <<handler, fs, readmeFile, env, ret, gpu>>

NextDemo == RunWebDemo

SpecDemo == InitDemo /\ [][NextDemo]_vars

----------------------------------------------------------------------------
(* Claims about run_web_demo *)

\* the manifest has an entry line `key: value`
ManifestHas(key, value) ==
    \E i \in EntryLines : EntryKey(ParsedLines[i]) = <<key>> /\ EntryValue(ParsedLines[i]) = <<value>>

ManifestHasKey(key) == \E i \in EntryLines : EntryKey(ParsedLines[i]) = <<key>>

\* a call on a cloned repository on a machine where torch imports and the GPU
\* query works, whose manifest has no entry line with a second colon
DemoRanOnClonedRepo ==
    /\ call.op = "run_web_demo" /\ pc \in {"done", "raised"}
    /\ RepoDirExists /\ readmeFile.exists
    /\ env.torch /\ (env.cuda => env.query_ok)
    /\ \A i \in EntryLines : Count(ParsedLines[i], ":") = 1

Launches == {i \in 1..Len(cmds) : cmds[i].what = "os.system"}

\* C1: with `sdk: gradio` and `app_file: F` in the manifest of a cloned
\* repository, run_web_demo does not raise and issues exactly one start
\* command, which runs F in the repository directory with port 6006.
\* (Stated for the manifests that also have a title, on a machine where
\* nothing else fails: the most favourable cases of the claim.)
C1_GradioDemoIsLaunched ==
    \A f \in {"app.py", "main.py"} :
        (DemoRanOnClonedRepo /\ ManifestHasKey("title") /\ ManifestHas("sdk", "gradio")
            /\ ManifestHas("app_file", f))
        => /\ exc = "None"
           /\ Cardinality(Launches) = 1
           /\ \A i \in Launches :
                cmds[i].arg = <<"export GRADIO_SERVER_PORT=6006 && cd ">> \o handler.repo_name
                                \o <<" && python ", f>>

\* C8: with no `title` key in the manifest of a cloned repository,
\* run_web_demo raises KeyError at the lookup of title and launches nothing.
\* (Stated for a machine where nothing fails before the lookup.)
C8_MissingTitleRaisesKeyError ==
    (DemoRanOnClonedRepo /\ ~ManifestHasKey("title"))
    => /\ exc = "KeyError"
       /\ Launches = {}

====
